---- MODULE Spec2Model ----
(***************************************************************************)
(* libvips redistribution scripts: tools/copy_libvips_linux.py,            *)
(* tools/copy_libvips_macos.py and tools/copy_libvips_windows.py.          *)
(*                                                                         *)
(* Strings are sequences of one-character strings, so that the scripts'    *)
(* str.startswith, substring tests, Path.name and glob patterns are        *)
(* computed character by character, as Python computes them.               *)
(***************************************************************************)
EXTENDS Integers, Sequences, FiniteSets, TLC

\* ------------------------------------------------------------------ bounds

\* The longest list of Homebrew libraries the root library references.
MaxDeps == 2
\* How many times in a row the script is run against one output directory.
MaxRuns == 2
\* How many patch-tool invocations may fail in all.
MaxFail == 1
\* The longest asset list of the fetched release (Windows).
MaxAssets == 2

None == "None"

\* ------------------------------------------------------------ str and Path

\* str.startswith
StartsWith(s, prefix) ==
  /\ Len(prefix) <= Len(s)
  /\ SubSeq(s, 1, Len(prefix)) = prefix

\* str.endswith
EndsWith(s, suffix) ==
  /\ Len(suffix) <= Len(s)
  /\ SubSeq(s, Len(s) - Len(suffix) + 1, Len(s)) = suffix

\* Python's `sub in s` on strings
Contains(s, sub) ==
  \E i \in 1..(Len(s) - Len(sub) + 1) : SubSeq(s, i, i + Len(sub) - 1) = sub

\* The index of the last "/" of s, 0 when there is none.
LastSlash(s) ==
  IF \E i \in 1..Len(s) : s[i] = "/"
  THEN CHOOSE i \in 1..Len(s) : s[i] = "/" /\ \A j \in (i+1)..Len(s) : s[j] # "/"
  ELSE 0

\* Path(s).name
PathName(s) == SubSeq(s, LastSlash(s) + 1, Len(s))

\* Path(s).parent, as a string ("" for a bare name)
PathParent(s) == SubSeq(s, 1, LastSlash(s) - 1)

\* Path(s).is_absolute()
IsAbsolute(s) == s # <<>> /\ Head(s) = "/"

\* dir / name
Join(dir, name) == dir \o <<"/">> \o name

\* fnmatch of a file name against a pattern whose only wildcard is "*"
RECURSIVE fnmatch(_, _)
fnmatch(name, pat) ==
  IF pat = <<>> THEN name = <<>>
  ELSE IF Head(pat) = "*"
       THEN fnmatch(name, Tail(pat)) \/ (name # <<>> /\ fnmatch(Tail(name), pat))
       ELSE name # <<>> /\ Head(name) = Head(pat) /\ fnmatch(Tail(name), Tail(pat))

Range(f) == { f[x] : x \in DOMAIN f }

\* A set as a sequence, in one fixed order (a directory listing's order).
RECURSIVE SetToSeq(_)
SetToSeq(S) ==
  IF S = {} THEN <<>>
  ELSE LET x == CHOOSE y \in S : TRUE IN <<x>> \o SetToSeq(S \ {x})

\* The sequences without repetition over S of length at most n.
RECURSIVE SeqsUpTo(_, _)
SeqsUpTo(S, n) ==
  IF n = 0 THEN { <<>> }
  ELSE { <<>> } \cup UNION { { <<x>> \o t : t \in SeqsUpTo(S \ {x}, n - 1) } : x \in S }

\* ------------------------------------------------- strings of the scripts

\* "/opt/hb"  (the output of `brew --prefix`)
homebrew_prefix ==
  <<"/","o","p","t","/","h","b">>
\* "/opt/hb/opt/vips"  (the output of `brew --prefix vips`)
vips_prefix ==
  <<"/","o","p","t","/","h","b","/","o","p","t","/","v","i","p","s">>
\* "/opt/hb/opt/glib/lib"
glib_keg_lib ==
  <<"/","o","p","t","/","h","b","/","o","p","t","/","g","l","i","b","/","l","i","b">>
\* "/opt/hb/opt/zlib/lib"
zlib_keg_lib ==
  <<"/","o","p","t","/","h","b","/","o","p","t","/","z","l","i","b","/","l","i","b">>
\* "/usr/lib"
usr_lib ==
  <<"/","u","s","r","/","l","i","b">>
\* "/lib"
slash_lib ==
  <<"/","l","i","b">>
\* "/lib64"
slash_lib64 ==
  <<"/","l","i","b","6","4">>
\* "/usr/lib64"
usr_lib64 ==
  <<"/","u","s","r","/","l","i","b","6","4">>
\* "/System"
slash_System ==
  <<"/","S","y","s","t","e","m">>
\* "/out/lib"  (args.output / "lib")
lib_output_dir ==
  <<"/","o","u","t","/","l","i","b">>
\* "lib"
s_lib ==
  <<"l","i","b">>
\* "libstdc++"
s_libstdcxx ==
  <<"l","i","b","s","t","d","c","+","+">>
\* "libgcc_s"
s_libgcc_s ==
  <<"l","i","b","g","c","c","_","s">>
\* "@rpath"
s_rpath ==
  <<"@","r","p","a","t","h">>
\* "$ORIGIN"
s_ORIGIN ==
  <<"$","O","R","I","G","I","N">>
\* "libvips.so"
n_libvips_so ==
  <<"l","i","b","v","i","p","s",".","s","o">>
\* "libvips.so.42"
n_libvips_so_42 ==
  <<"l","i","b","v","i","p","s",".","s","o",".","4","2">>
\* "libvips-cpp.so.42"
n_libvips_cpp_so_42 ==
  <<"l","i","b","v","i","p","s","-","c","p","p",".","s","o",".","4","2">>
\* "libglib-2.0.so.0"
n_libglib_so ==
  <<"l","i","b","g","l","i","b","-","2",".","0",".","s","o",".","0">>
\* "libz.so.1"
n_libz_so ==
  <<"l","i","b","z",".","s","o",".","1">>
\* "libc.so.6"
n_libc_so ==
  <<"l","i","b","c",".","s","o",".","6">>
\* "libstdc++.so.6"
n_libstdcxx_so ==
  <<"l","i","b","s","t","d","c","+","+",".","s","o",".","6">>
\* "ld-linux-x86-64.so.2"
n_ld_linux ==
  <<"l","d","-","l","i","n","u","x","-","x","8","6","-","6","4",".","s","o",".","2">>
\* "libvips.dylib"
n_libvips_dylib ==
  <<"l","i","b","v","i","p","s",".","d","y","l","i","b">>
\* "libvips.42.dylib"
n_libvips_42_dylib ==
  <<"l","i","b","v","i","p","s",".","4","2",".","d","y","l","i","b">>
\* "libvips-cpp.42.dylib"
n_libvips_cpp_dylib ==
  <<"l","i","b","v","i","p","s","-","c","p","p",".","4","2",".","d","y","l","i","b">>
\* "libglib-2.0.0.dylib"
n_libglib_dylib ==
  <<"l","i","b","g","l","i","b","-","2",".","0",".","0",".","d","y","l","i","b">>
\* "libz.1.dylib"
n_libz_dylib ==
  <<"l","i","b","z",".","1",".","d","y","l","i","b">>
\* "libSystem.B.dylib"
n_libSystem_dylib ==
  <<"l","i","b","S","y","s","t","e","m",".","B",".","d","y","l","i","b">>
\* "libc++.1.dylib"
n_libcxx_dylib ==
  <<"l","i","b","c","+","+",".","1",".","d","y","l","i","b">>
\* "libvips.so"
p_libvips_so ==
  <<"l","i","b","v","i","p","s",".","s","o">>
\* "libvips.so.*"
p_libvips_so_any ==
  <<"l","i","b","v","i","p","s",".","s","o",".","*">>
\* "libvips*.so*"
p_libvips_any_so_any ==
  <<"l","i","b","v","i","p","s","*",".","s","o","*">>
\* "*.so*"
p_any_so_any ==
  <<"*",".","s","o","*">>
\* "libvips.dylib"
p_libvips_dylib ==
  <<"l","i","b","v","i","p","s",".","d","y","l","i","b">>
\* "libvips.*.dylib"
p_libvips_any_dylib ==
  <<"l","i","b","v","i","p","s",".","*",".","d","y","l","i","b">>
\* "libvips*.dylib"
p_libvips_star_dylib ==
  <<"l","i","b","v","i","p","s","*",".","d","y","l","i","b">>
\* "*.dylib"
p_any_dylib ==
  <<"*",".","d","y","l","i","b">>

\* ------------------------------------------------ the source file system

Unix == {"linux", "macos"}

vips_lib_dir == Join(vips_prefix, s_lib)
homebrew_lib == Join(homebrew_prefix, s_lib)

\* The libraries of an installation, by role. `unversioned` is a symlink to
\* `versioned`; glib and glib_keg are two files with one file name; sys_z has
\* the file name of z and lies under a system root.
Env(pf) ==
  IF pf = "linux"
  THEN [ unversioned |-> Join(vips_lib_dir, n_libvips_so),
         versioned   |-> Join(vips_lib_dir, n_libvips_so_42),
         cpp         |-> Join(vips_lib_dir, n_libvips_cpp_so_42),
         glib        |-> Join(homebrew_lib, n_libglib_so),
         glib_keg    |-> Join(glib_keg_lib, n_libglib_so),
         z           |-> Join(homebrew_lib, n_libz_so),
         sys_z       |-> Join(usr_lib, n_libz_so),
         sys_c       |-> Join(slash_lib, n_libc_so),
         sys_cxx     |-> Join(usr_lib, n_libstdcxx_so) ]
  ELSE [ unversioned |-> Join(vips_lib_dir, n_libvips_dylib),
         versioned   |-> Join(vips_lib_dir, n_libvips_42_dylib),
         cpp         |-> Join(vips_lib_dir, n_libvips_cpp_dylib),
         glib        |-> Join(homebrew_lib, n_libglib_dylib),
         glib_keg    |-> Join(glib_keg_lib, n_libglib_dylib),
         z           |-> Join(zlib_keg_lib, n_libz_dylib),
         sys_z       |-> Join(usr_lib, n_libz_dylib),
         sys_c       |-> Join(usr_lib, n_libSystem_dylib),
         sys_cxx     |-> Join(usr_lib, n_libcxx_dylib) ]

AllPaths(pf) == Range(Env(pf))

\* The paths that exist: `layout` says what the vips lib directory holds.
Existing(pf, layout, zexists) ==
  LET E == Env(pf) IN
    {E.glib, E.glib_keg, E.sys_z, E.sys_c, E.sys_cxx}
      \cup (IF zexists THEN {E.z} ELSE {})
      \cup (CASE layout = "none" -> {}
              [] layout = "versioned" -> {E.versioned}
              [] layout = "full" -> {E.unversioned, E.versioned, E.cpp})

\* What the root library may reference, besides the system's C library.
RootRefs(pf) == LET E == Env(pf) IN {E.glib, E.glib_keg, E.z}

\* One installation. links maps every existing path to the file it resolves to
\* (Path.resolve); bins gives each file its install name, the dependency
\* references recorded in it, and the lister that works on it.
World(pf, layout, vrefs, grefs, zrefs, zexists, vtool) ==
  LET E == Env(pf)
      X == Existing(pf, layout, zexists)
      tool == IF pf = "linux" THEN "ldd" ELSE "otool"
  IN [ links |-> [p \in X |-> IF p = E.unversioned THEN E.versioned ELSE p],
       bins  |-> [p \in X \ {E.unversioned} |->
                   [ id   |-> p,
                     refs |-> CASE p = E.versioned -> vrefs
                                [] p = E.cpp -> <<E.versioned, E.sys_cxx>>
                                [] p = E.glib -> grefs
                                [] p = E.glib_keg -> <<E.z>>
                                [] p = E.z -> zrefs
                                [] OTHER -> <<>>,
                     tool |-> IF p = E.versioned THEN vtool ELSE tool ]] ]

ListerChoices(pf) == IF pf = "linux" THEN {"ldd", "readelf"} ELSE {"otool", "fail"}

Worlds(pf) ==
  LET E == Env(pf) IN
    { World(pf, "none", <<>>, <<>>, <<>>, TRUE, IF pf = "linux" THEN "ldd" ELSE "otool") }
    \cup
    { World(pf, layout, vrefs \o <<E.sys_c>>, grefs, zrefs, zexists, vtool) :
        layout \in {"versioned", "full"},
        vrefs \in SeqsUpTo(RootRefs(pf), MaxDeps),
        grefs \in { <<E.sys_z>> },
        zrefs \in { <<>>, <<E.glib_keg>> },
        zexists \in BOOLEAN,
        vtool \in ListerChoices(pf) }


\* ------------------------------------------------------------------ state

VARIABLES
  platform,      \* which script runs: "linux", "macos" or "windows"
  world,         \* the source installation (unchanged by the scripts)
  run,           \* the number of this run against the output directory
  pc,            \* main's position
  main_lib,      \* main's main_lib
  copied,        \* the set `copied` of file names
  outdir,        \* the files of lib_output_dir, by file name
  stack,         \* the active calls of the recursive walk, innermost first
  pending,       \* what the sibling loop of main has still to visit
  todo,          \* what the rewrite loop has still to visit
  fixed,         \* the binaries the rewrite pass has issued its invocation for
  fails,         \* patch-tool invocations that have failed so far
  log,           \* the lines this run passed to the logger, with their level
  exit_code,     \* the process's exit code, None while it runs
  version_file,  \* the list written to VERSION.txt, None when never written
  prev,          \* what the previous run left: its copied set and file names
  win            \* the Windows script's state

vars == << platform, world, run, pc, main_lib, copied, outdir, stack,
           pending, todo, fixed, fails, log, exit_code, version_file, prev, win >>

\* ---------------------------------------------------------------- logging

Line(level, msg, arg) == [level |-> level, msg |-> msg, arg |-> arg]

\* The lines the logger emits of those passed to it: all of them under
\* --verbose (level DEBUG), all but the DEBUG lines without it (level INFO).
Emitted(lines, verbose) ==
  SelectSeq(lines, LAMBDA l : l.level # "DEBUG" \/ verbose)

\* run_command's lines: the command, and the failure when it exits non-zero.
run_command(cmd, target, ok) ==
  << Line("INFO", "Running command", <<cmd, target>>) >>
    \o (IF ok THEN <<>> ELSE << Line("ERROR", "Command failed", <<cmd, target>>) >>)

\* --------------------------------------------------------- the file system

exists(p) == p \in DOMAIN world.links

\* dir.glob(pattern): the entries of dir whose name matches
glob(dir, pattern) ==
  { p \in DOMAIN world.links : PathParent(p) = dir /\ fnmatch(PathName(p), pattern) }

\* output_dir.glob(pattern): file names of the output directory
glob_output(files, pattern) == { n \in DOMAIN files : fnmatch(n, pattern) }

\* A copy that leaves an existing destination as it is.
copy2_keep_existing(lib_path) ==
  IF PathName(lib_path) \in DOMAIN outdir THEN outdir[PathName(lib_path)]
  ELSE LET real == world.links[lib_path]
           b == world.bins[real]
       IN [ src |-> lib_path, real |-> real, id |-> b.id, refs |-> b.refs,
            tool |-> b.tool, rpath |-> <<>> ]

\* shutil.copy2(real_path, dest_path): the bytes written to the destination
copy2(lib_path) ==
  LET real == world.links[lib_path]
      b == world.bins[real]
  IN [ src |-> lib_path, real |-> real, id |-> b.id, refs |-> b.refs,
       tool |-> b.tool, rpath |-> <<>> ]

\* A copy that writes nothing.
WriteFile_nothing(files, name, f) == files

\* The directory with one file written (an existing file is overwritten).
WriteFile(files, name, f) ==
  [ n \in DOMAIN files \cup {name} |-> IF n = name THEN f ELSE files[n] ]


\* ------------------------------------------------- the dependency listers

\* "not"  (the first word of ldd's "not found")
s_not ==
  <<"n","o","t">>
\* "(0x00007ffd)"  (the load address ldd prints)
s_address ==
  <<"(","0","x","0","0","0","0","7","f","f","d",")">>
\* "linux-vdso.so.1"
n_linux_vdso ==
  <<"l","i","n","u","x","-","v","d","s","o",".","s","o",".","1">>
ld_linux == Join(slash_lib64, n_ld_linux)

\* The lines `ldd <copy>` prints: one "name => path (address)" line per
\* reference that resolves, "name => not found" for one that does not, the
\* vdso line and the loader's line.
ldd_stdout(f) ==
  [ i \in 1..Len(f.refs) |->
      [ arrow |-> TRUE, first |-> PathName(f.refs[i]),
        second |-> IF exists(f.refs[i]) THEN f.refs[i] ELSE s_not ] ]
    \o << [ arrow |-> FALSE, first |-> n_linux_vdso, second |-> s_address ],
          [ arrow |-> FALSE, first |-> ld_linux, second |-> s_address ] >>

\* The lines `readelf -d <copy>` prints that matter: the SONAME entry and one
\* NEEDED entry per reference, each with the bare library name in brackets.
readelf_stdout(f) ==
  << [ tag |-> "SONAME", lib |-> PathName(f.id) ] >>
    \o [ i \in 1..Len(f.refs) |-> [ tag |-> "NEEDED", lib |-> PathName(f.refs[i]) ] ]

\* get_so_deps, the ldd branch: the path after "=>", or a line that is a path
RECURSIVE parse_ldd(_)
parse_ldd(lines) ==
  IF lines = <<>> THEN <<>>
  ELSE LET l == Head(lines) IN
    (IF l.arrow
     THEN (IF l.second # <<>> /\ l.second # s_not /\ ~StartsWith(l.second, <<"(">>)
           THEN << l.second >> ELSE <<>>)
     ELSE IF StartsWith(l.first, <<"/">>) THEN << l.first >> ELSE <<>>)
    \o parse_ldd(Tail(lines))

\* get_so_deps, the readelf branch: the names of the NEEDED entries
RECURSIVE parse_readelf(_)
parse_readelf(lines) ==
  IF lines = <<>> THEN <<>>
  ELSE (IF Head(lines).tag = "NEEDED" THEN << Head(lines).lib >> ELSE <<>>)
         \o parse_readelf(Tail(lines))

get_so_deps(f) ==
  IF f.tool = "ldd" THEN parse_ldd(ldd_stdout(f))
  ELSE IF f.tool = "readelf" THEN parse_readelf(readelf_stdout(f))
  ELSE <<>>

\* The commands get_so_deps runs on the copy at `dest`.
get_so_deps_lines(f, dest) ==
  run_command("ldd", dest, f.tool = "ldd")
    \o (IF f.tool = "ldd" THEN <<>> ELSE run_command("readelf", dest, f.tool = "readelf"))

\* The lines `otool -L <copy>` prints: the file's own line, then the install
\* name of the library itself, then one line per reference.
otool_stdout(f, dest) == << dest >> \o << f.id >> \o f.refs

\* get_dylib_deps: every line but the first; nothing when otool fails
get_dylib_deps(f, dest) ==
  IF f.tool # "otool" THEN <<>> ELSE Tail(otool_stdout(f, dest))

\* find_library: the values it may return (a glob's first hit is any hit)
RECURSIVE find_library(_, _)
find_library(lib_name, search_paths) ==
  IF search_paths = <<>> THEN { None }
  ELSE LET search_path == Head(search_paths)
           lib_path == Join(search_path, lib_name)
           hits == glob(search_path, lib_name \o <<"*">>)
       IN IF exists(lib_path) THEN { lib_path }
          ELSE IF hits # {} THEN hits
          ELSE find_library(lib_name, Tail(search_paths))

search_paths == << vips_lib_dir, homebrew_lib >>

\* ------------------------------------------------------- the closure walk

system_prefixes == { slash_lib, slash_lib64, usr_lib, usr_lib64 }
essential_libs == { s_libstdcxx, s_libgcc_s }

\* A walk without the visited check: no library counts as copied already.
never_already_copied(lib_name, names) == FALSE

\* "Skip if already copied"
already_copied(lib_name, names) == lib_name \in names

\* A walk without the system-path check.
linux_skips_nothing(lib_path) == FALSE

\* Linux: under a system prefix and not one of the essential libraries
linux_skips_system(lib_path) ==
  /\ \E prefix \in system_prefixes : StartsWith(lib_path, prefix)
  /\ ~ \E essential \in essential_libs : Contains(PathName(lib_path), essential)

\* macOS: under /usr/lib or /System
macos_skips_system(lib_path) ==
  StartsWith(lib_path, usr_lib) \/ StartsWith(lib_path, slash_System)

\* The file name a library is copied under
dest_name(lib_path) == PathName(lib_path)

\* A walk that says nothing about a library that is not there.
library_not_found_quiet(lib_path) == <<>>

\* "Library not found: <lib_path>"
library_not_found(lib_path) == << Line("WARNING", "Library not found", lib_path) >>

\* What one call of the walk does before its loop: the new copied set and
\* output directory, the frame of its loop when it copied (the dependencies
\* listed on the copy), and its log lines.
Returned(lines) ==
  [ copied |-> copied, outdir |-> outdir, frames |-> <<>>, lines |-> lines ]

copy_shared_libs_recursive(lib_path) ==
  LET lib_name == PathName(lib_path) IN
    IF already_copied(lib_name, copied) THEN Returned(<<>>)
    ELSE IF linux_skips_system(lib_path)
      THEN Returned(<< Line("DEBUG", "Skipping system library", lib_path) >>)
    ELSE IF ~exists(lib_path)
      THEN Returned(library_not_found(lib_path))
    ELSE
      LET f == copy2(lib_path)
          dest_path == Join(lib_output_dir, dest_name(lib_path))
      IN [ copied |-> copied \cup {lib_name},
           outdir |-> WriteFile(outdir, dest_name(lib_path), f),
           frames |-> << [ lib |-> lib_name, deps |-> get_so_deps(f) ] >>,
           lines  |-> << Line("INFO", "Copying", lib_path) >>
                        \o get_so_deps_lines(f, dest_path) ]

copy_dylibs_recursive(lib_path) ==
  LET lib_name == PathName(lib_path) IN
    IF already_copied(lib_name, copied) THEN Returned(<<>>)
    ELSE IF macos_skips_system(lib_path)
      THEN Returned(<< Line("DEBUG", "Skipping system library", lib_path) >>)
    ELSE IF ~exists(lib_path)
      THEN Returned(library_not_found(lib_path))
    ELSE
      LET f == copy2(lib_path)
          dest_path == Join(lib_output_dir, dest_name(lib_path))
      IN [ copied |-> copied \cup {lib_name},
           outdir |-> WriteFile(outdir, dest_name(lib_path), f),
           frames |-> << [ lib |-> lib_name, deps |-> get_dylib_deps(f, dest_path) ] >>,
           lines  |-> << Line("INFO", "Copying", lib_path) >>
                        \o run_command("otool", dest_path, f.tool = "otool") ]

\* A loop that follows paths only and leaves every bare name alone.
linux_dep_targets_paths_only(dep) ==
  IF StartsWith(dep, homebrew_prefix) THEN { dep } ELSE { None }

\* The loop over deps, Linux: the library the walk is called on for one dep
\* (None: no call).
linux_dep_targets(dep) ==
  IF StartsWith(dep, homebrew_prefix) THEN { dep }
  ELSE IF ~IsAbsolute(dep)
    THEN { IF found # None /\ StartsWith(found, homebrew_prefix) THEN found ELSE None :
             found \in find_library(dep, search_paths) }
  ELSE { None }

\* A loop that follows only the dependencies under the vips package prefix.
macos_dep_targets_vips_only(dep) ==
  IF StartsWith(dep, vips_prefix) THEN { dep } ELSE { None }

\* The loop over deps, macOS
macos_dep_targets(dep) ==
  IF StartsWith(dep, homebrew_prefix) THEN { dep } ELSE { None }

Walk(lib_path) ==
  IF platform = "linux" THEN copy_shared_libs_recursive(lib_path)
  ELSE copy_dylibs_recursive(lib_path)

DepTargets(dep) ==
  IF platform = "linux" THEN linux_dep_targets(dep) ELSE macos_dep_targets(dep)

\* A call of the walk on lib_path, made with the calls of `frames` active.
Call(lib_path, frames) ==
  LET r == Walk(lib_path) IN
    /\ copied' = r.copied
    /\ outdir' = r.outdir
    /\ stack' = r.frames \o frames
    /\ log' = log \o r.lines

\* ------------------------------------------------------- the rewrite pass

\* patchelf --set-rpath $ORIGIN <file>
patchelf_set_rpath(f) == [ f EXCEPT !.rpath = s_ORIGIN ]

\* install_name_tool -id <new_id> <file>
install_name_tool_id(f, new_id) == [ f EXCEPT !.id = new_id ]

\* install_name_tool -change <old> <new> <file>: every reference equal to old
install_name_tool_change(f, old, new) ==
  [ f EXCEPT !.refs = [ i \in DOMAIN f.refs |-> IF f.refs[i] = old THEN new ELSE f.refs[i] ] ]

\* "@rpath/<name>"
rpath_name(name) == Join(s_rpath, name)

\* A pass that redirects only the dependencies that already point into the
\* output directory.
deps_to_change_by_path(deps, files) ==
  SelectSeq(deps, LAMBDA dep : StartsWith(dep, lib_output_dir))

\* fix_library_paths: the dependencies of a dylib that it redirects, those
\* whose base name is a file of the output directory
deps_to_change(deps, files) ==
  SelectSeq(deps, LAMBDA dep : PathName(dep) \in DOMAIN files)

\* The -change invocations from the i-th on; those of `failing` exit non-zero.
RECURSIVE change_deps(_, _, _, _)
change_deps(f, deps, failing, i) ==
  IF i > Len(deps) THEN f
  ELSE change_deps(IF i \in failing THEN f
                   ELSE install_name_tool_change(f, deps[i], rpath_name(PathName(deps[i]))),
                   deps, failing, i + 1)

RECURSIVE change_deps_lines(_, _, _, _)
change_deps_lines(deps, failing, dylib, i) ==
  IF i > Len(deps) THEN <<>>
  ELSE run_command("install_name_tool -change", <<deps[i], dylib>>, i \notin failing)
         \o << Line("INFO", "Changed", <<deps[i], rpath_name(PathName(deps[i]))>>) >>
         \o change_deps_lines(deps, failing, dylib, i + 1)

\* A run_command that raises on a non-zero exit code (check=True): the caller's
\* loop ends there.
run_command_raises(ok) == ok

\* run_command returns the completed process whatever its exit code (no
\* check=True, no raise): the caller's loop goes on after an invocation that
\* ended `ok` or not.
run_command_returns(ok) == TRUE

\* ------------------------------------------------------------------ main

\* --fix-rpath / --fix-paths: store_true with default True
fix_paths == TRUE

\* A main that rewrites before it visits the siblings.
after_fix_first(step) ==
  CASE step = "walk" -> "fix"
    [] step = "fix" -> "siblings"
    [] step = "siblings" -> "finish"

\* The order of main's steps after the primary walk.
after(step) ==
  CASE step = "walk" -> "siblings"
    [] step = "siblings" -> "fix"
    [] step = "fix" -> "finish"

main_patterns ==
  IF platform = "linux" THEN << p_libvips_so, p_libvips_so_any >>
  ELSE << p_libvips_dylib, p_libvips_any_dylib >>

\* A sibling pass that looks for the versioned names of the root only.
sibling_pattern_versioned ==
  IF platform = "linux" THEN p_libvips_so_any ELSE p_libvips_any_dylib

sibling_pattern ==
  IF platform = "linux" THEN p_libvips_any_so_any ELSE p_libvips_star_dylib

\* A rewrite pass that looks at the libvips libraries only.
rewrite_pattern_vips_only ==
  IF platform = "linux" THEN p_libvips_any_so_any ELSE p_libvips_star_dylib

rewrite_pattern ==
  IF platform = "linux" THEN p_any_so_any ELSE p_any_dylib

\* The libraries main may take as main_lib: the matches of the first pattern
\* that matches anything (libs[0] is any of them).
RECURSIVE main_lib_candidates(_)
main_lib_candidates(patterns) ==
  IF patterns = <<>> THEN {}
  ELSE IF glob(vips_lib_dir, Head(patterns)) # {} THEN glob(vips_lib_dir, Head(patterns))
  ELSE main_lib_candidates(Tail(patterns))

Goto(step) ==
  /\ pc' = step
  /\ pending' = IF step = "siblings" THEN glob(vips_lib_dir, sibling_pattern) ELSE pending

\* An exit that passes no status: the process ends with code 0.
Exit_no_status(code, lines) ==
  /\ pc' = "exit"
  /\ exit_code' = 0
  /\ log' = log \o lines

Exit(code, lines) ==
  /\ pc' = "exit"
  /\ exit_code' = code
  /\ log' = log \o lines

\* get_homebrew_prefix, get_package_prefix: a failing brew raises RuntimeError,
\* which nothing catches; the interpreter exits with code 1.
Setup ==
  /\ platform \in Unix /\ pc = "start"
  /\ \E brew \in {"ok", "no prefix", "no package prefix"} :
       IF brew = "ok"
       THEN /\ pc' = "find_main"
            /\ log' = log \o run_command("brew --prefix", <<>>, TRUE)
                          \o run_command("brew --prefix", <<"vips">>, TRUE)
            /\ UNCHANGED exit_code
       ELSE Exit(1, run_command("brew --prefix", <<>>, brew # "no prefix")
                      \o (IF brew = "no prefix" THEN <<>>
                          ELSE run_command("brew --prefix", <<"vips">>, FALSE)))
  /\ UNCHANGED << platform, world, run, main_lib, copied, outdir, stack,
                  pending, todo, fixed, fails, version_file, prev, win >>

\* "Find the main libvips shared library"
FindMain ==
  /\ platform \in Unix /\ pc = "find_main"
  /\ LET libs == main_lib_candidates(main_patterns) IN
       IF libs = {}
       THEN /\ Exit(1, << Line("ERROR", "Could not find libvips", vips_lib_dir) >>)
            /\ UNCHANGED main_lib
       ELSE /\ \E lib \in libs : main_lib' = lib
            /\ pc' = "walk"
            /\ UNCHANGED << exit_code, log >>
  /\ UNCHANGED << platform, world, run, copied, outdir, stack,
                  pending, todo, fixed, fails, version_file, prev, win >>

\* copied = set(); the call of the walk on main_lib
StartWalk ==
  /\ platform \in Unix /\ pc = "walk"
  /\ Call(main_lib, <<>>)
  /\ pc' = "walking"
  /\ UNCHANGED << platform, world, run, main_lib, pending, todo, fixed,
                  fails, exit_code, version_file, prev, win >>

\* One iteration of `for dep in deps` of the innermost active call.
LoopDep ==
  /\ pc \in {"walking", "siblings"}
  /\ stack # <<>> /\ Head(stack).deps # <<>>
  /\ LET top == Head(stack)
         dep == Head(top.deps)
         frames == << [ top EXCEPT !.deps = Tail(top.deps) ] >> \o Tail(stack)
     IN \E target \in DepTargets(dep) :
          IF target = None
          THEN stack' = frames /\ UNCHANGED << copied, outdir, log >>
          ELSE Call(target, frames)
  /\ UNCHANGED << platform, world, run, pc, main_lib, pending, todo, fixed,
                  fails, exit_code, version_file, prev, win >>

\* The innermost active call has no dep left and returns.
Return ==
  /\ pc \in {"walking", "siblings"}
  /\ stack # <<>> /\ Head(stack).deps = <<>>
  /\ stack' = Tail(stack)
  /\ UNCHANGED << platform, world, run, pc, main_lib, copied, outdir,
                  pending, todo, fixed, fails, log, exit_code, version_file, prev, win >>

\* The primary walk has returned to main.
WalkDone ==
  /\ pc = "walking" /\ stack = <<>>
  /\ Goto(after("walk"))
  /\ UNCHANGED << platform, world, run, main_lib, copied, outdir, stack,
                  todo, fixed, fails, log, exit_code, version_file, prev, win >>

\* "Also explicitly look for versioned libraries": one iteration
Sibling ==
  /\ pc = "siblings" /\ stack = <<>> /\ pending # {}
  /\ \E lib \in pending :
       /\ pending' = pending \ {lib}
       /\ IF PathName(lib) \notin copied
          THEN Call(lib, <<>>)
          ELSE UNCHANGED << copied, outdir, stack, log >>
  /\ UNCHANGED << platform, world, run, pc, main_lib, todo, fixed,
                  fails, exit_code, version_file, prev, win >>

SiblingsDone ==
  /\ pc = "siblings" /\ stack = <<>> /\ pending = {}
  /\ Goto(after("siblings"))
  /\ log' = log \o << Line("INFO", "Total libraries copied", Cardinality(copied)) >>
  /\ UNCHANGED << platform, world, run, main_lib, copied, outdir, stack,
                  todo, fixed, fails, exit_code, version_file, prev, win >>

\* fix_library_rpath up to its loop / fix_library_paths up to its loop
FixStart ==
  /\ platform \in Unix /\ pc = "fix"
  /\ fixed' = {}
  /\ IF ~fix_paths
     THEN Goto(after("fix")) /\ UNCHANGED << todo, log >>
     ELSE IF platform = "linux"
     THEN \E patchelf \in BOOLEAN :
          /\ log' = log \o << Line("INFO", "Fixing library RPATH", <<>>) >>
                        \o run_command("which", <<"patchelf">>, patchelf)
                        \o (IF patchelf THEN <<>>
                            ELSE << Line("WARNING", "patchelf not found", <<>>) >>)
          /\ IF patchelf
             THEN /\ todo' = SetToSeq(glob_output(outdir, rewrite_pattern))
                  /\ pc' = "fixing" /\ UNCHANGED pending
             ELSE Goto(after("fix")) /\ UNCHANGED todo
     ELSE /\ log' = log \o << Line("INFO", "Fixing library paths", <<>>) >>
          /\ todo' = SetToSeq(glob_output(outdir, rewrite_pattern))
          /\ pc' = "fixing" /\ UNCHANGED pending
  /\ UNCHANGED << platform, world, run, main_lib, copied, outdir, stack,
                  fails, exit_code, version_file, prev, win >>

\* The outcomes a patch-tool invocation may have now.
Outcomes == {TRUE} \cup (IF fails < MaxFail THEN {FALSE} ELSE {})

\* fix_library_rpath: one iteration of `for so_file in so_files`
FixOneLinux ==
  /\ platform = "linux" /\ pc = "fixing" /\ todo # <<>>
  /\ LET name == Head(todo)
         so_file == Join(lib_output_dir, name)
     IN \E ok \in Outcomes :
          /\ outdir' = IF ok THEN [ outdir EXCEPT ![name] = patchelf_set_rpath(outdir[name]) ]
                       ELSE outdir
          /\ fails' = IF ok THEN fails ELSE fails + 1
          /\ log' = log \o << Line("INFO", "Fixing", name) >>
                        \o run_command("patchelf --set-rpath", so_file, ok)
          /\ todo' = IF run_command_returns(ok) THEN Tail(todo) ELSE <<>>
          /\ fixed' = fixed \cup {name}
  /\ UNCHANGED << platform, world, run, pc, main_lib, copied, stack,
                  pending, exit_code, version_file, prev, win >>

\* fix_library_paths: one iteration of `for dylib in dylibs`
FixOneMacos ==
  /\ platform = "macos" /\ pc = "fixing" /\ todo # <<>>
  /\ LET name == Head(todo)
         dylib == Join(lib_output_dir, name)
     IN \E id_ok \in Outcomes :
          LET f1 == IF id_ok THEN install_name_tool_id(outdir[name], rpath_name(name))
                    ELSE outdir[name]
              deps == deps_to_change(get_dylib_deps(f1, dylib), outdir)
              left == MaxFail - fails - (IF id_ok THEN 0 ELSE 1)
          IN \E failing \in { F \in SUBSET (1..Len(deps)) : Cardinality(F) <= left } :
               /\ outdir' = [ outdir EXCEPT ![name] = change_deps(f1, deps, failing, 1) ]
               /\ fails' = fails + (IF id_ok THEN 0 ELSE 1) + Cardinality(failing)
               /\ log' = log \o << Line("INFO", "Fixing", name) >>
                             \o run_command("install_name_tool -id", dylib, id_ok)
                             \o run_command("otool", dylib, f1.tool = "otool")
                             \o change_deps_lines(deps, failing, dylib, 1)
               /\ todo' = IF run_command_returns(id_ok /\ failing = {}) THEN Tail(todo) ELSE <<>>
               /\ fixed' = fixed \cup {name}
  /\ UNCHANGED << platform, world, run, pc, main_lib, copied, stack,
                  pending, exit_code, version_file, prev, win >>

FixDone ==
  /\ platform \in Unix /\ pc = "fixing" /\ todo = <<>>
  /\ Goto(after("fix"))
  /\ UNCHANGED << platform, world, run, main_lib, copied, outdir, stack,
                  todo, fixed, fails, log, exit_code, version_file, prev, win >>

\* A main whose return code reports the failed invocations.
Finish_strict ==
  /\ platform \in Unix /\ pc = "finish"
  /\ version_file' = copied
  /\ exit_code' = (IF fails > 0 THEN 1 ELSE 0)
  /\ pc' = "done"
  /\ log' = log \o << Line("INFO", "Done!", <<>>) >>
  /\ UNCHANGED << platform, world, run, main_lib, copied, outdir, stack,
                  pending, todo, fixed, fails, prev, win >>

\* The rest of main: VERSION.txt, the summary, return 0.
Finish ==
  /\ platform \in Unix /\ pc = "finish"
  /\ version_file' = copied
  /\ exit_code' = 0
  /\ pc' = "done"
  /\ log' = log \o << Line("INFO", "Done!", <<>>) >>
  /\ UNCHANGED << platform, world, run, main_lib, copied, outdir, stack,
                  pending, todo, fixed, fails, prev, win >>

\* The script is run again, against the same installation and output directory.
Rerun ==
  /\ platform \in Unix /\ pc = "done" /\ run < MaxRuns
  /\ run' = run + 1
  /\ prev' = [ copied |-> copied, names |-> DOMAIN outdir ]
  /\ pc' = "start"
  /\ main_lib' = None /\ copied' = {} /\ stack' = <<>> /\ pending' = {}
  /\ todo' = <<>> /\ fixed' = {} /\ log' = <<>> /\ exit_code' = None
  /\ UNCHANGED << platform, world, outdir, version_file, win, fails >>

\* ---------------------------------------------------- the Windows script

\* "vips-dev-w64-web-8.17.0-static.zip"
a_w64_web ==
  <<"v","i","p","s","-","d","e","v","-","w","6","4","-","w","e","b","-","8",".","1","7",".","0","-","s","t","a","t","i","c",".","z","i","p">>
\* "vips-dev-w64-web-8.17.0-static-ffi.zip"
a_w64_web_ffi ==
  <<"v","i","p","s","-","d","e","v","-","w","6","4","-","w","e","b","-","8",".","1","7",".","0","-","s","t","a","t","i","c","-","f","f","i",".","z","i","p">>
\* "vips-dev-w64-all-8.17.0.zip"
a_w64_all ==
  <<"v","i","p","s","-","d","e","v","-","w","6","4","-","a","l","l","-","8",".","1","7",".","0",".","z","i","p">>
\* "vips-dev-arm64-web-8.17.0-static.zip"
a_arm64_web ==
  <<"v","i","p","s","-","d","e","v","-","a","r","m","6","4","-","w","e","b","-","8",".","1","7",".","0","-","s","t","a","t","i","c",".","z","i","p">>
\* "vips-dev-w64-web-8.17.0.tar.gz"
a_w64_web_tar ==
  <<"v","i","p","s","-","d","e","v","-","w","6","4","-","w","e","b","-","8",".","1","7",".","0",".","t","a","r",".","g","z">>
\* "w64"
s_w64 ==
  <<"w","6","4">>
\* "arm64"
s_arm64 ==
  <<"a","r","m","6","4">>
\* "x64"
s_x64 ==
  <<"x","6","4">>
\* "web"
s_web ==
  <<"w","e","b">>
\* "all"
s_all ==
  <<"a","l","l">>
\* ".zip"
s_zip ==
  <<".","z","i","p">>
\* "ffi"
s_ffi ==
  <<"f","f","i">>
\* ".dll"
s_dll ==
  <<".","d","l","l">>
\* "*.dll"
p_any_dll ==
  <<"*",".","d","l","l">>
\* "libvips-42.dll"
n_libvips_dll ==
  <<"l","i","b","v","i","p","s","-","4","2",".","d","l","l">>
\* "libglib-2.0-0.dll"
n_libglib_dll ==
  <<"l","i","b","g","l","i","b","-","2",".","0","-","0",".","d","l","l">>
\* "vips.exe"
n_vips_exe ==
  <<"v","i","p","s",".","e","x","e">>

\* ARCH_MAP.get(arch, arch), for the two values --arch accepts
ARCH_MAP(arch) == IF arch = s_x64 THEN s_w64 ELSE arch

\* The asset names a release may carry.
AssetNames == { a_w64_web, a_w64_web_ffi, a_w64_all, a_arm64_web, a_w64_web_tar }

\* The files of the archive's bin directory.
bin_src == { n_libvips_dll, n_libglib_dll, n_vips_exe }

asset_matches(name, arch_suffix, build_type) ==
  Contains(name, arch_suffix) /\ Contains(name, build_type) /\ EndsWith(name, s_zip)

\* The first asset of the list whose name is in `wanted`, None when none is.
RECURSIVE first_asset(_, _)
first_asset(assets, wanted) ==
  IF assets = <<>> THEN None
  ELSE IF Head(assets) \in wanted THEN Head(assets)
  ELSE first_asset(Tail(assets), wanted)

\* A lookup that settles for the release's first asset when none matches.
find_asset_any_arch(assets, arch, build_type) ==
  LET arch_suffix == ARCH_MAP(arch)
      matching == { name \in Range(assets) : asset_matches(name, arch_suffix, build_type) }
  IN IF matching # {} THEN first_asset(assets, matching)
     ELSE IF assets # <<>> THEN Head(assets) ELSE None

\* find_asset_for_arch: a matching asset without "ffi" in its name, else any
\* matching asset, else None
find_asset_for_arch(assets, arch, build_type) ==
  LET arch_suffix == ARCH_MAP(arch)
      matching == { name \in Range(assets) : asset_matches(name, arch_suffix, build_type) }
      preferred == first_asset(assets, { name \in matching : ~Contains(name, s_ffi) })
  IN IF preferred # None THEN preferred
     ELSE first_asset(assets, matching)

\* The lines main logs when no asset matches: one per asset of the release.
available_assets_lines(assets) ==
  << Line("ERROR", "Could not find a download", <<>>),
     Line("ERROR", "Available assets", <<>>) >>
    \o [ i \in 1..Len(assets) |-> Line("ERROR", "asset", assets[i]) ]

\* get_latest_release_info: the request goes to .../releases/latest whatever
\* --version says; a URLError is logged and raised again.
WinFetch ==
  /\ platform = "windows" /\ pc = "start"
  /\ \E ok \in BOOLEAN :
       IF ok
       THEN /\ pc' = "find_asset"
            /\ win' = [ win EXCEPT !.release_tag = win.latest_tag ]
            /\ log' = log \o << Line("INFO", "Latest release", win.latest_tag) >>
            /\ UNCHANGED exit_code
       ELSE /\ Exit(1, << Line("ERROR", "Failed to fetch release info", <<>>) >>)
            /\ UNCHANGED win
  /\ UNCHANGED << platform, world, run, main_lib, copied, outdir, stack,
                  pending, todo, fixed, fails, version_file, prev >>

\* "Find the appropriate asset"
WinFindAsset ==
  /\ platform = "windows" /\ pc = "find_asset"
  /\ LET asset == find_asset_for_arch(win.assets, win.arch, win.build_type) IN
       IF asset = None
       THEN /\ Exit(1, available_assets_lines(win.assets))
            /\ UNCHANGED win
       ELSE /\ win' = [ win EXCEPT !.filename = asset ]
            /\ pc' = "download"
            /\ log' = log \o << Line("INFO", "Found asset", asset) >>
            /\ UNCHANGED exit_code
  /\ UNCHANGED << platform, world, run, main_lib, copied, outdir, stack,
                  pending, todo, fixed, fails, version_file, prev >>

\* download_file: a URLError is logged and raised again
WinDownload ==
  /\ platform = "windows" /\ pc = "download"
  /\ \E ok \in BOOLEAN :
       IF ok
       THEN /\ win' = [ win EXCEPT !.downloaded = TRUE ]
            /\ pc' = "extract"
            /\ log' = log \o << Line("INFO", "Download complete", win.filename) >>
            /\ UNCHANGED exit_code
       ELSE /\ Exit(1, << Line("ERROR", "Download failed", win.filename) >>)
            /\ UNCHANGED win
  /\ UNCHANGED << platform, world, run, main_lib, copied, outdir, stack,
                  pending, todo, fixed, fails, version_file, prev >>

\* extract_zip, then copy_libraries: the *.dll files of bin go to output/lib
WinExtractCopy ==
  /\ platform = "windows" /\ pc = "extract"
  /\ LET dlls == { n \in bin_src : fnmatch(n, p_any_dll) } IN
       /\ win' = [ win EXCEPT !.extracted = TRUE, !.copied_files = dlls ]
       /\ outdir' = [ n \in DOMAIN outdir \cup dlls |->
                        IF n \in dlls THEN [ src |-> win.filename ] ELSE outdir[n] ]
  /\ pc' = "finish"
  /\ UNCHANGED << platform, world, run, main_lib, copied, stack, pending,
                  todo, fixed, fails, log, exit_code, version_file, prev >>

\* "Create version info file", the summary, return 0
WinFinish ==
  /\ platform = "windows" /\ pc = "finish"
  /\ version_file' = win.copied_files
  /\ exit_code' = 0
  /\ pc' = "done"
  /\ log' = log \o << Line("INFO", "Done!", <<>>) >>
  /\ UNCHANGED << platform, world, run, main_lib, copied, outdir, stack,
                  pending, todo, fixed, fails, prev, win >>

\* ------------------------------------------------------- the specification

\* The release that carries the latest tag, and an older one.
tag_latest == "v8.17.0"
tag_older == "v8.16.1"

WinInit ==
  { [ arch |-> arch, build_type |-> build_type, version |-> version,
      latest_tag |-> tag_latest, assets |-> assets,
      release_tag |-> None, filename |-> None,
      downloaded |-> FALSE, extracted |-> FALSE, copied_files |-> {} ] :
      arch \in {s_x64, s_arm64}, build_type \in {s_web, s_all},
      version \in {"latest", tag_older},
      assets \in SeqsUpTo(AssetNames, MaxAssets) }

Init ==
  /\ platform \in {"linux", "macos", "windows"}
  /\ IF platform = "windows"
     THEN world = None /\ win \in WinInit
     ELSE world \in Worlds(platform) /\ win = None
  /\ run = 1
  /\ pc = "start"
  /\ main_lib = None
  /\ copied = {}
  /\ outdir = <<>>
  /\ stack = <<>>
  /\ pending = {}
  /\ todo = <<>>
  /\ fixed = {}
  /\ fails = 0
  /\ log = <<>>
  /\ exit_code = None
  /\ version_file = None
  /\ prev = None

Next ==
  \/ Setup
  \/ FindMain
  \/ StartWalk
  \/ LoopDep
  \/ Return
  \/ WalkDone
  \/ Sibling
  \/ SiblingsDone
  \/ FixStart
  \/ FixOneLinux
  \/ FixOneMacos
  \/ FixDone
  \/ Finish
  \/ WinFetch
  \/ WinFindAsset
  \/ WinDownload
  \/ WinExtractCopy
  \/ WinFinish

Spec == Init /\ [][Next]_vars

\* The script run MaxRuns times in a row.
NextTwice == Next \/ Rerun

SpecTwice == Init /\ [][NextTwice]_vars

\* The walk called on any path of an installation, as a caller other than
\* main may call it.
InitWalk ==
  /\ platform \in Unix
  /\ world \in { w \in Worlds(platform) : Env(platform).cpp \in DOMAIN w.links }
  /\ win = None
  /\ run = 1
  /\ pc = "walk"
  /\ main_lib \in AllPaths(platform)
  /\ copied = {}
  /\ outdir = <<>>
  /\ stack = <<>>
  /\ pending = {}
  /\ todo = <<>>
  /\ fixed = {}
  /\ fails = 0
  /\ log = <<>>
  /\ exit_code = None
  /\ version_file = None
  /\ prev = None

\* The outermost call has returned to its caller.
WalkReturns ==
  /\ pc = "walking" /\ stack = <<>>
  /\ pc' = "returned"
  /\ UNCHANGED << platform, world, run, main_lib, copied, outdir, stack, pending,
                  todo, fixed, fails, log, exit_code, version_file, prev, win >>

NextWalk ==
  \/ StartWalk
  \/ LoopDep
  \/ Return
  \/ WalkReturns

SpecWalk == InitWalk /\ [][NextWalk]_vars

\* ------------------------------------------------------------- properties

Count(lines, Test(_)) == Cardinality({ i \in DOMAIN lines : Test(lines[i]) })

AllNames == { PathName(p) : p \in AllPaths(platform) }

\* A path of system origin: under a system root and, on Linux, not one of
\* the two runtime libraries that are bundled all the same.
SystemOrigin(p) ==
  IF platform = "linux"
  THEN /\ \/ StartsWith(p, slash_lib) \/ StartsWith(p, slash_lib64)
          \/ StartsWith(p, usr_lib) \/ StartsWith(p, usr_lib64)
       /\ ~Contains(PathName(p), s_libstdcxx)
       /\ ~Contains(PathName(p), s_libgcc_s)
  ELSE StartsWith(p, usr_lib) \/ StartsWith(p, slash_System)

\* A path of controlled origin: under the Homebrew prefix.
Controlled(p) == StartsWith(p, homebrew_prefix)

\* The closure walk (primary walk and sibling pass) is running or has just
\* ended; the rewrite pass has not begun.
InWalk == platform \in Unix /\ pc \in {"walking", "siblings", "fix"}

\* The closure walk has ended and the rewrite pass has not begun.
WalkOver == platform \in Unix /\ pc = "fix"

\* The primary walk has just returned to main.
PrimaryWalkOver ==
  /\ platform \in Unix /\ pc = "siblings" /\ stack = <<>>
  /\ pending = glob(vips_lib_dir, sibling_pattern)

CopyLines(name) ==
  Count(log, LAMBDA l : l.msg = "Copying" /\ PathName(l.arg) = name)

ListerRuns(name) ==
  Count(log, LAMBDA l : /\ l.msg = "Running command"
                        /\ l.arg[1] = (IF platform = "linux" THEN "ldd" ELSE "otool")
                        /\ l.arg[2] = Join(lib_output_dir, name))

NotFoundLines(p) ==
  Count(log, LAMBDA l : l.msg = "Library not found" /\ l.arg = p)

\* What the lister reports for a file of the output directory.
ListedDeps(f, name) ==
  IF platform = "linux" THEN get_so_deps(f)
  ELSE get_dylib_deps(f, Join(lib_output_dir, name))

\* The libraries a reported dependency stands for: itself when it is a path,
\* what the search directories hold under that name when it is a bare name.
Resolved(dep) ==
  IF IsAbsolute(dep) THEN { dep }
  ELSE { found \in find_library(dep, search_paths) : found # None }

\* The controlled-origin references of the library at path p.
RefsAt(p) ==
  IF ~exists(p) THEN {}
  ELSE { t \in UNION { Resolved(dep) :
                         dep \in Range(ListedDeps(copy2(p), PathName(p))) } :
           Controlled(t) }

RECURSIVE ReachFrom(_, _)
ReachFrom(frontier, seen) ==
  IF frontier = {} THEN seen
  ELSE ReachFrom((UNION { RefsAt(p) : p \in frontier }) \ (seen \cup frontier),
                 seen \cup frontier)

\* The paths reachable from the root through controlled-origin references.
Reachable == ReachFrom({main_lib}, {})

\* C1: during the closure walk a library in the copied set has been copied
\* exactly once and had its dependencies listed exactly once, a library not
\* in the set never; and no step of the walk takes a name out of the set or
\* writes again the file copied under it.
C1_CopiedOnce ==
  /\ [](InWalk => \A name \in AllNames :
          /\ CopyLines(name) = (IF name \in copied THEN 1 ELSE 0)
          /\ ListerRuns(name) = (IF name \in copied THEN 1 ELSE 0))
  /\ [][ (InWalk /\ InWalk') =>
           \A name \in copied : name \in copied' /\ outdir'[name] = outdir[name] ]_vars

\* The walk is over and the root referenced two existing libraries of one
\* file name at two paths; the name is in the copied set.
C1_Witness ==
  /\ WalkOver
  /\ \E p, q \in Range(ListedDeps(outdir[PathName(main_lib)], PathName(main_lib))) :
       /\ p # q /\ PathName(p) = PathName(q)
       /\ exists(p) /\ exists(q)
       /\ PathName(p) \in copied

\* C2, as stated: the file name of a system-origin library is never in the
\* copied set nor in the output directory.
C2_Original ==
  platform \in Unix =>
    \A p \in AllPaths(platform) :
      SystemOrigin(p) => PathName(p) \notin copied /\ PathName(p) \notin DOMAIN outdir

\* C2: no file of the output directory was copied from a system-origin path,
\* no such path was ever copied, and no active call of the walk lists the
\* dependencies of such a library.
C2_SystemNeverCopied ==
  platform \in Unix =>
    /\ \A n \in DOMAIN outdir : ~SystemOrigin(outdir[n].src)
    /\ \A i \in DOMAIN log : log[i].msg = "Copying" => ~SystemOrigin(log[i].arg)
    /\ \A i \in DOMAIN stack :
         stack[i].lib \in DOMAIN outdir /\ ~SystemOrigin(outdir[stack[i].lib].src)

\* The walk was called on a system-origin library and has returned: the
\* library was skipped and nothing was copied.
C2_Witness ==
  /\ pc = "returned" /\ SystemOrigin(main_lib)
  /\ \E i \in DOMAIN log :
       log[i].msg = "Skipping system library" /\ log[i].arg = main_lib
  /\ copied = {} /\ outdir = <<>>

\* C3, as stated: every controlled-origin library reachable from the root is
\* copied or has exactly one not-found diagnostic, never neither and never
\* more than one.
C3_Original ==
  WalkOver =>
    \A p \in Reachable :
      Controlled(p) =>
        /\ PathName(p) \in copied \/ NotFoundLines(p) = 1
        /\ NotFoundLines(p) <= 1

\* C3: when the closure walk is over, every controlled-origin library that a
\* copied library references is copied (its file name is in the copied set)
\* or has at least one not-found diagnostic.
C3_CopiedOrDiagnosed ==
  WalkOver =>
    \A n \in copied :
      \A dep \in Range(ListedDeps(outdir[n], n)) :
        \A t \in Resolved(dep) :
          Controlled(t) => PathName(t) \in copied \/ NotFoundLines(t) >= 1

\* The walk is over and a referenced controlled-origin library that does not
\* exist was diagnosed, on two visits.
C3_Witness ==
  /\ WalkOver
  /\ \E n \in copied :
       \E dep \in Range(ListedDeps(outdir[n], n)) :
         /\ Controlled(dep) /\ ~exists(dep)
         /\ PathName(dep) \notin copied
         /\ NotFoundLines(dep) = 2

\* The names of the existing, non-system libraries reachable from the root.
Expected == { PathName(p) : p \in { q \in Reachable : exists(q) /\ ~SystemOrigin(q) } }

\* No two reachable libraries have one file name.
NoNameClash == \A p, q \in Reachable : PathName(p) = PathName(q) => p = q

\* C4, as stated: when the primary walk returns, the copied set is exactly
\* the set of the names of the existing, non-system libraries reachable from
\* the root.
C4_Original == PrimaryWalkOver => copied = Expected

\* C4: when the primary walk returns, the copied set holds the root's name
\* and only names of existing, non-system libraries reachable from the root,
\* and it is exactly that set when no two reachable libraries share a name.
C4_ClosureCopied ==
  PrimaryWalkOver =>
    /\ PathName(main_lib) \in copied
    /\ copied \subseteq Expected
    /\ NoNameClash => copied = Expected

\* The scenario of the claim: the root libvips.so.42 references
\* libglib-2.0.so.0 under the prefix and libc.so.6 under /lib.
C4_Witness ==
  /\ PrimaryWalkOver /\ platform = "linux"
  /\ main_lib = Env("linux").versioned
  /\ outdir[n_libvips_so_42].refs = << Env("linux").glib, Env("linux").sys_c >>
  /\ copied = { n_libvips_so_42, n_libglib_so }

\* C5, as stated: a system-origin dependency of a copied library leaves one
\* line "Skipping system library" in the log (here: in what the logger emits
\* under --verbose).
C5_SkipLogged ==
  WalkOver =>
    \A n \in copied :
      \A dep \in Range(ListedDeps(outdir[n], n)) :
        SystemOrigin(dep) =>
          \E i \in DOMAIN Emitted(log, TRUE) :
            /\ Emitted(log, TRUE)[i].msg = "Skipping system library"
            /\ Emitted(log, TRUE)[i].arg = dep

\* The fetched release has no asset for the requested architecture and build
\* type: no asset name holds the architecture's suffix and the build type and
\* ends in ".zip".
NoMatchingAsset ==
  /\ platform = "windows" /\ win.release_tag # None
  /\ ~ \E i \in DOMAIN win.assets :
         /\ Contains(win.assets[i], IF win.arch = s_x64 THEN s_w64 ELSE win.arch)
         /\ Contains(win.assets[i], win.build_type)
         /\ EndsWith(win.assets[i], s_zip)

\* C6: on Windows, once the lookup among the assets of the fetched release
\* has found no match, the process has exited with code 1, the log names
\* every asset of the release, and nothing was downloaded, extracted or
\* copied and VERSION.txt was not written.
C6_NoAssetExits ==
  (NoMatchingAsset /\ pc # "find_asset") =>
    /\ pc = "exit" /\ exit_code = 1
    /\ \A i \in DOMAIN win.assets :
         \E j \in DOMAIN log :
           /\ log[j].level = "ERROR" /\ log[j].msg = "asset"
           /\ log[j].arg = win.assets[i]
    /\ ~win.downloaded /\ ~win.extracted /\ win.copied_files = {}
    /\ outdir = <<>> /\ version_file = None

\* --arch arm64 against a release that has assets, none of them for arm64:
\* the process has exited.
C6_Witness ==
  /\ NoMatchingAsset /\ pc = "exit"
  /\ win.arch = s_arm64 /\ win.assets # <<>>

\* The rewrite pass of the macOS script is over.
MacosRewriteOver == platform = "macos" /\ pc \in {"finish", "done"}

\* A command run on the file `name` of the output directory exited non-zero.
FailedOn(name) ==
  \E i \in DOMAIN log :
    /\ log[i].msg = "Command failed"
    /\ IF log[i].arg[1] = "install_name_tool -change"
       THEN log[i].arg[2][2] = Join(lib_output_dir, name)
       ELSE log[i].arg[2] = Join(lib_output_dir, name)

C8_SecondRunSame ==
  /\ (platform \in Unix /\ run >= 2 /\ pc = "done") =>
       copied = prev.copied /\ DOMAIN outdir = prev.names
  /\ (platform \in Unix /\ run >= 2 /\ pc = "fix") =>
       \A n \in copied :
         /\ outdir[n].refs = world.bins[outdir[n].real].refs
         /\ outdir[n].id = world.bins[outdir[n].real].id
         /\ outdir[n].rpath = <<>>

\* The second run is done, after a first run that copied several libraries.
C8_Witness ==
  /\ platform \in Unix /\ run = 2 /\ pc = "done"
  /\ Cardinality(prev.copied) >= 2

\* The rewrite pass has been entered / the closure builder has finished (the
\* line main logs after the sibling loop).
RewriteStarted ==
  \E i \in DOMAIN log : log[i].msg \in {"Fixing library RPATH", "Fixing library paths"}

ClosureComplete == \E i \in DOMAIN log : log[i].msg = "Total libraries copied"

CopyCount == Count(log, LAMBDA l : l.msg = "Copying")

\* C9: the rewrite pass is entered only when the primary walk and the
\* sibling pass have returned, and from then on the walk copies nothing: the
\* copied set, the file names of the output directory and the number of
\* copies made stay as they are and no call of the walk is active.
C9_RewriteAfterClosure ==
  /\ []((platform \in Unix /\ RewriteStarted) =>
          /\ ClosureComplete
          /\ stack = <<>> /\ pending = {}
          /\ pc \notin {"walk", "walking", "siblings"})
  /\ [][ (platform \in Unix /\ RewriteStarted) =>
           /\ copied' = copied
           /\ DOMAIN outdir' = DOMAIN outdir
           /\ CopyCount' = CopyCount
           /\ stack' = <<>> ]_vars

\* The rewrite pass is at work on a closure of several libraries.
C9_Witness ==
  /\ platform \in Unix /\ pc = "fixing"
  /\ fixed # {} /\ todo # <<>>
  /\ Cardinality(copied) >= 2

\* The first command the rewrite pass runs on each binary.
RewriteCommand ==
  IF platform = "linux" THEN "patchelf --set-rpath" ELSE "install_name_tool -id"

PatchCommands ==
  { "patchelf --set-rpath", "install_name_tool -id", "install_name_tool -change" }

\* The rewrite pass ran its loop and is over.
RewriteLoopOver ==
  /\ platform \in Unix /\ pc \in {"finish", "done"}
  /\ RewriteStarted
  /\ ~ \E i \in DOMAIN log : log[i].msg = "patchelf not found"

\* C10: when the rewrite loop is over, the rewrite invocation has been
\* issued for every binary of the output directory, whatever invocations
\* failed, and every failed invocation is in the log.
C10_AllProcessed ==
  RewriteLoopOver =>
    /\ \A n \in DOMAIN outdir :
         fnmatch(n, rewrite_pattern) =>
           /\ n \in fixed
           /\ \E i \in DOMAIN log :
                /\ log[i].msg = "Running command"
                /\ log[i].arg[1] = RewriteCommand
                /\ log[i].arg[2] = Join(lib_output_dir, n)
    /\ Count(log, LAMBDA l : l.msg = "Command failed" /\ l.arg[1] \in PatchCommands)
         = fails

\* The loop is over; an invocation failed on one binary and a later binary
\* was processed.
C10_Witness ==
  /\ RewriteLoopOver /\ fails >= 1
  /\ \E i, j \in DOMAIN log :
       /\ i < j
       /\ log[i].msg = "Command failed" /\ log[i].arg[1] \in PatchCommands
       /\ log[j].msg = "Fixing"

\* A brew --prefix lookup of the setup phase has failed.
PrefixLookupFailed ==
  /\ platform \in Unix
  /\ \E i \in DOMAIN log :
       log[i].msg = "Command failed" /\ log[i].arg[1] = "brew --prefix"

\* The package lib directory holds no root library.
NoRootLibrary ==
  /\ platform \in Unix
  /\ Env(platform).unversioned \notin DOMAIN world.links
  /\ Env(platform).versioned \notin DOMAIN world.links

\* C11: once a setup failure has happened (a prefix lookup failed, the search
\* for the root library found none, the search for an asset found none), the
\* process has exited with code 1, no library was copied and VERSION.txt was
\* not written.
C11_SetupFailureAborts ==
  ( \/ PrefixLookupFailed
    \/ NoRootLibrary /\ pc \notin {"start", "find_main"}
    \/ NoMatchingAsset /\ pc # "find_asset" ) =>
    /\ pc = "exit" /\ exit_code = 1
    /\ copied = {} /\ outdir = <<>>
    /\ CopyCount = 0
    /\ version_file = None

\* The search for the root library found none and the process has exited.
C11_Witness ==
  /\ NoRootLibrary /\ pc = "exit"
  /\ \E i \in DOMAIN log : log[i].msg = "Could not find libvips"

\* The setup phase of the Linux or macOS script has succeeded.
SetupSucceeded == platform \in Unix /\ pc \notin {"start", "find_main", "exit"}

\* How far main is from its end.
PhaseRank ==
  CASE pc = "walk" -> 6
    [] pc = "walking" -> 5
    [] pc \in {"siblings", "returned"} -> 4
    [] pc = "fix" -> 3
    [] pc = "fixing" -> 2
    [] pc = "finish" -> 1
    [] OTHER -> 0

RECURSIVE DepsLeft(_)
DepsLeft(frames) ==
  IF frames = <<>> THEN 0 ELSE Len(Head(frames).deps) + DepsLeft(Tail(frames))

\* What is left to do within a phase: a copy weighs more than the frame and
\* the dependencies it adds (at most the references, the install name and the
\* loader).
WorkLeft ==
  (Cardinality(AllNames) - Cardinality(copied)) * (MaxDeps + 4)
    + DepsLeft(stack) + Len(stack) + Cardinality(pending) + Len(todo)

\* A step brings the run nearer to its end.
RunDecreases ==
  \/ PhaseRank' < PhaseRank
  \/ PhaseRank' = PhaseRank /\ WorkLeft' < WorkLeft

\* The run is not stuck: the statement main or the walk is at can be executed
\* (the dependency loop has a target to decide on, the rewrite loop a file
\* to work on).
CanStep ==
  \/ pc \in {"walk", "fix", "finish"}
  \/ /\ pc \in {"walking", "siblings"} /\ stack # <<>>
     /\ \/ Head(stack).deps = <<>>
        \/ DepTargets(Head(Head(stack).deps)) # {}
  \/ pc \in {"walking", "siblings"} /\ stack = <<>>
  \/ /\ pc = "fixing"
     /\ \/ todo = <<>>
        \/ Head(todo) \in DOMAIN outdir /\ Outcomes # {}

C13_RequestedRelease ==
  (platform = "windows" /\ win.release_tag # None) =>
    win.release_tag = (IF win.version = "latest" THEN win.latest_tag ELSE win.version)

\* C14, as stated: an existing library under a system root whose name holds
\* libstdc++ or libgcc_s, listed as a dependency of a copied library, is
\* copied.
C14_AllowListedCopied ==
  (WalkOver /\ platform = "linux") =>
    \A n \in copied :
      \A dep \in Range(ListedDeps(outdir[n], n)) :
        ( /\ IsAbsolute(dep) /\ exists(dep)
          /\ \/ StartsWith(dep, slash_lib) \/ StartsWith(dep, usr_lib)
          /\ \/ Contains(PathName(dep), s_libstdcxx)
             \/ Contains(PathName(dep), s_libgcc_s) ) =>
          PathName(dep) \in copied

\* C17: the walk called on any path of any installation, cyclic ones included:
\* it makes at most one copy per file name, has at most one active call per
\* copy, is never stuck before it returns, and every step brings it nearer to
\* its return, so it returns.
C17_WalkTerminates ==
  /\ [](/\ CopyCount <= Cardinality(AllNames)
        /\ CopyCount = Cardinality(copied)
        /\ Len(stack) <= CopyCount
        /\ WorkLeft >= 0)
  /\ [](pc \in {"walk", "walking"} => CanStep)
  /\ [][RunDecreases]_vars

\* The walk has returned from a cycle: two copied libraries that list each
\* other.
C17_Witness ==
  /\ pc = "returned"
  /\ \E a, b \in copied :
       /\ a # b
       /\ \E d \in Range(ListedDeps(outdir[a], a)) : PathName(d) = b
       /\ \E d \in Range(ListedDeps(outdir[b], b)) : PathName(d) = a

\* ------------------------------------- the dependency loop run on any dep

\* What a lister may report as a dependency: any path of the installation
\* and any of their file names as a bare name.
DepInputs(pf) == AllPaths(pf) \cup { PathName(p) : p \in AllPaths(pf) }

\* The root library has been copied and the loop of its call is about to run
\* on one reported dependency.
InitDep ==
  /\ platform \in Unix
  /\ world \in { w \in Worlds(platform) : Env(platform).cpp \in DOMAIN w.links }
  /\ win = None
  /\ run = 1
  /\ pc = "walking"
  /\ main_lib = Env(platform).versioned
  /\ copied = { PathName(main_lib) }
  /\ outdir = WriteFile(<<>>, PathName(main_lib), copy2(main_lib))
  /\ \E dep \in DepInputs(platform) :
       stack = << [ lib |-> PathName(main_lib), deps |-> << dep >>, listed |-> << dep >> ] >>
  /\ pending = {}
  /\ todo = <<>>
  /\ fixed = {}
  /\ fails = 0
  /\ log = << Line("INFO", "Copying", main_lib) >>
  /\ exit_code = None
  /\ version_file = None
  /\ prev = None

NextDep ==
  \/ LoopDep
  \/ Return
  \/ WalkReturns

SpecDep == InitDep /\ [][NextDep]_vars

\* The loop of the root's call is at its reported dependency.
AtRootLoop == pc = "walking" /\ Len(stack) = 1 /\ Head(stack).deps # <<>>

\* This step calls the walk on t: t was copied before, or the call's first
\* log line (copying, skipping, not found) is about t.
Recursed(t) ==
  \/ PathName(t) \in copied /\ copied' = copied
  \/ Len(log') > Len(log) /\ log'[Len(log) + 1].arg = t

\* This step calls the walk on nothing.
NotRecursed == copied' = copied /\ log' = log /\ outdir' = outdir

\* The matches of a bare name in one directory: the entry of that name when
\* there is one, else the entries whose name begins with it.
MatchesIn(dir, name) ==
  IF Join(dir, name) \in DOMAIN world.links THEN { Join(dir, name) }
  ELSE { p \in DOMAIN world.links : PathParent(p) = dir /\ StartsWith(PathName(p), name) }

\* The matches in the first directory that has any: the package lib directory
\* first, then the Homebrew lib directory.
FirstMatches(name) ==
  IF MatchesIn(Join(vips_prefix, s_lib), name) # {}
  THEN MatchesIn(Join(vips_prefix, s_lib), name)
  ELSE MatchesIn(Join(homebrew_prefix, s_lib), name)

\* What the loop does with a bare name where it resolves bare names.
BareResolved(dep) ==
  IF FirstMatches(dep) = {} THEN NotRecursed
  ELSE \E t \in FirstMatches(dep) : IF Controlled(t) THEN Recursed(t) ELSE NotRecursed

\* C15, as stated: on Linux and on macOS the loop recurses into an absolute
\* dependency under the prefix, resolves a bare one in the search directories
\* in order and recurses when the match is under the prefix, and leaves any
\* other dependency alone.
C15_Original ==
  [][ AtRootLoop =>
        LET dep == Head(Head(stack).deps) IN
          IF IsAbsolute(dep)
          THEN (IF Controlled(dep) THEN Recursed(dep) ELSE NotRecursed)
          ELSE BareResolved(dep) ]_vars

\* C15: as above on Linux; on macOS the loop recurses into an absolute
\* dependency under the prefix and leaves every other one alone, a bare name
\* included.
C15_DependencyLoop ==
  [][ AtRootLoop =>
        LET dep == Head(Head(stack).deps) IN
          IF IsAbsolute(dep)
          THEN (IF Controlled(dep) THEN Recursed(dep) ELSE NotRecursed)
          ELSE IF platform = "linux" THEN BareResolved(dep)
          ELSE NotRecursed ]_vars

\* On Linux a bare name was resolved in the Homebrew lib directory and the
\* library found there was copied.
C15_Witness ==
  /\ platform = "linux" /\ stack # <<>>
  /\ LET dep == stack[Len(stack)].listed[1] IN
       /\ ~IsAbsolute(dep)
       /\ dep \in copied
       /\ outdir[dep].src = Join(Join(homebrew_prefix, s_lib), dep)

\* "libvips"
s_libvips ==
  <<"l","i","b","v","i","p","s">>
\* ".so"
s_dot_so ==
  <<".","s","o">>
\* ".dylib"
s_dot_dylib ==
  <<".","d","y","l","i","b">>

\* A shared library by its name: *.so* on Linux, *.dylib on macOS.
IsBinaryName(n) ==
  IF platform = "linux" THEN Contains(n, s_dot_so) ELSE EndsWith(n, s_dot_dylib)

\* The sibling libraries: the files of the package lib directory whose name
\* begins with the root's base name.
Siblings ==
  { p \in DOMAIN world.links :
      /\ PathParent(p) = Join(vips_prefix, s_lib)
      /\ StartsWith(PathName(p), s_libvips)
      /\ IsBinaryName(PathName(p)) }

\* C16: when the closure builder has finished, every sibling library of the
\* package lib directory is in the copied set, copied from that directory,
\* and was copied once.
C16_SiblingsCopied ==
  WalkOver =>
    \A p \in Siblings :
      /\ PathName(p) \in copied
      /\ outdir[PathName(p)].src = p
      /\ CopyLines(PathName(p)) = 1

\* The closure builder has finished; one sibling was reached by the primary
\* walk from the root and another one only by the sibling pass.
C16_Witness ==
  /\ WalkOver
  /\ \E p, q \in Siblings :
       /\ p # main_lib /\ p \in Reachable /\ PathName(p) \in copied
       /\ q \notin Reachable /\ PathName(q) \in copied

\* ------------------------------------ a run into a used output directory

\* A library an earlier run left in the output directory.
Stale(pf) ==
  [ src |-> Env(pf).z, real |-> Env(pf).z, id |-> Env(pf).z, refs |-> <<>>,
    tool |-> (IF pf = "linux" THEN "ldd" ELSE "otool"), rpath |-> <<>> ]

\* The Linux or macOS script started with an output directory that holds a
\* library of an earlier run (mkdir(parents=True, exist_ok=True) takes the
\* directory as it is).
InitResidue ==
  /\ platform \in Unix
  /\ world \in Worlds(platform)
  /\ win = None
  /\ run = 1
  /\ pc = "start"
  /\ main_lib = None
  /\ copied = {}
  /\ outdir = WriteFile(<<>>, PathName(Env(platform).z), Stale(platform))
  /\ stack = <<>>
  /\ pending = {}
  /\ todo = <<>>
  /\ fixed = {}
  /\ fails = 0
  /\ log = <<>>
  /\ exit_code = None
  /\ version_file = None
  /\ prev = None

NextUnix ==
  \/ Setup
  \/ FindMain
  \/ StartWalk
  \/ LoopDep
  \/ Return
  \/ WalkDone
  \/ Sibling
  \/ SiblingsDone
  \/ FixStart
  \/ FixOneLinux
  \/ FixOneMacos
  \/ FixDone
  \/ Finish

SpecResidue == InitResidue /\ [][NextUnix]_vars

\* The files of the output directory the rewrite pass has run its first
\* command on.
Rewritten ==
  { n \in DOMAIN outdir :
      \E i \in DOMAIN log :
        /\ log[i].msg = "Running command"
        /\ log[i].arg[1] = RewriteCommand
        /\ log[i].arg[2] = Join(lib_output_dir, n) }

\* C18, as stated: the binaries the rewrite pass has rewritten are those of
\* the copied set, all of them and no other.
C18_Original == RewriteLoopOver => Rewritten = copied

\* C18: the binaries the rewrite pass has rewritten are the shared libraries
\* of the output directory (by name), all of them: those of the copied set
\* and those an earlier run left there.
C18_RewritesOutputDir ==
  RewriteLoopOver =>
    /\ Rewritten = { n \in DOMAIN outdir : IsBinaryName(n) }
    /\ \A n \in copied : IsBinaryName(n) => n \in Rewritten

\* The pass has rewritten a library that this run did not copy.
C18_Witness ==
  /\ RewriteLoopOver
  /\ Cardinality(copied) >= 2
  /\ \E n \in Rewritten : n \notin copied

\* A step takes no name out of the copied set and no file out of the output
\* directory.
KeepsCopies ==
  platform \in Unix =>
    (copied \subseteq copied' /\ (DOMAIN outdir) \subseteq (DOMAIN outdir'))

\* C19: every name of the copied set is a file of the output directory; the
\* lister is run on a file of the output directory only, after the line that
\* reports its copy; and no step takes a name out of the copied set or a
\* file out of the output directory.
C19_CopiedIsWritten ==
  /\ [](platform \in Unix =>
          /\ copied \subseteq DOMAIN outdir
          /\ \A j \in DOMAIN log :
               (log[j].msg = "Running command"
                  /\ log[j].arg[1] \in {"ldd", "readelf", "otool"}) =>
                 /\ PathParent(log[j].arg[2]) = lib_output_dir
                 /\ PathName(log[j].arg[2]) \in copied
                 /\ \E i \in 1..(j - 1) :
                      /\ log[i].msg = "Copying"
                      /\ PathName(log[i].arg) = PathName(log[j].arg[2]))
  /\ [][KeepsCopies]_vars

\* The walk is at work below a library it copied from the root's call.
C19_Witness ==
  /\ platform \in Unix /\ pc = "walking"
  /\ Len(stack) >= 2
  /\ \A i \in DOMAIN stack : stack[i].lib \in DOMAIN outdir
====
